---- MODULE Spec2Model ----
(***************************************************************************)
(* State-machine model of the stardust-neon game core: the GameEngine      *)
(* component (frame callback, pause gating, simulation step, outbound      *)
(* notifications) and the projection/collision helpers it uses.            *)
(*                                                                         *)
(* Number representation.  The source computes in IEEE doubles; the model  *)
(* computes on fixed-point lattices and rounds after every operation:      *)
(*   - world lengths (positions, radii, velocities per 16 ms): tenths of   *)
(*     a world unit;                                                       *)
(*   - normalised screen offsets and slopes, sin/cos/tan: thousandths;     *)
(*   - angles: milliradians;  times: milliseconds;                         *)
(*   - health and score: the source's own integers.                        *)
(* A vector carries, beside its three lattice coordinates, the names of    *)
(* the coordinates that are NaN (nan) and of those that are infinite       *)
(* (inf); a NaN coordinate's number is 0, an infinite one's is its sign.   *)
(***************************************************************************)
EXTENDS Integers, Sequences, FiniteSets, TLC

(***************************************************************************)
(* Bounds of the exploration (not program constants).                      *)
(***************************************************************************)
MaxFrames == 2
MaxToggles == 2
MaxEnemies == 2
StartTime == 1000

(***************************************************************************)
(* Program constants.                                                      *)
(***************************************************************************)
\* src/components/GameEngine.tsx:17  BASE_SCROLL_SPEED = 2.5 (tenths per 16 ms)
BASE_SCROLL_SPEED == 25
\* src/components/GameEngine.tsx:18  FIRE_RATE = 100 (ms)
FIRE_RATE == 100
\* src/components/GameEngine.tsx:19  FLOOR_Y = -6 (tenths)
FLOOR_Y == -60
\* src/components/GameEngine.tsx:20  SHIP_LAG = 0.08 (hundredths)
SHIP_LAG == 8
\* src/components/GameEngine.tsx:21  RETICLE_LAG = 0.15 (hundredths)
RETICLE_LAG == 15
\* src/components/GameEngine.tsx:22  AIM_DISTANCE = 400 (tenths)
AIM_DISTANCE == 4000
\* src/components/GameEngine.tsx:23  SHIP_MARGIN = 5 (tenths)
SHIP_MARGIN == 50
\* src/unnamed/part_000:4  FOV = 500 (pixels)
FOV == 500
\* src/unnamed/part_000:5  NEAR_CLIP = 1 (tenths)
NEAR_CLIP == 10
\* src/unnamed/part_000:6  VIEW_DISTANCE = 5000 (tenths)
VIEW_DISTANCE == 50000
\* src/unnamed/part_000:10  CAMERA_PITCH = 0.2 rad: cos, sin, tan in thousandths
COS_PITCH == 980
SIN_PITCH == 199
TAN_PITCH == 203
\* the 16 ms nominal frame every per-frame speed is normalised to (dt/16)
NOMINAL_FRAME == 16
\* pi in milliradians, for Math.sin
PI_MRAD == 3142

\* src/unnamed/part_000:9  CAMERA_POS = {x: 0, y: 8, z: -30} (tenths)
CAMERA_POS == [x |-> 0, y |-> 80, z |-> -300]

\* props width and height of the component (pixels), fixed for the session
width == 800
height == 600

\* the mission record handed to the core: the service's static fallback
\* (enemyDensity 0.5, speedModifier 1.0), both in tenths
mission == [enemyDensity |-> 5, speedModifier |-> 10]

(***************************************************************************)
(* Arithmetic helpers standing for the double operations of the source.    *)
(***************************************************************************)
Max(a, b) == IF a >= b THEN a ELSE b
Min(a, b) == IF a <= b THEN a ELSE b

\* a / b rounded to the nearest lattice point (half away from zero), b > 0
RoundDiv(a, b) ==
    IF a >= 0 THEN (2 * a + b) \div (2 * b)
              ELSE -((2 * (-a) + b) \div (2 * b))

\* F applied to the value of e: sequencing of one statement after another
Bind(e, F(_)) == CHOOSE r \in {F(x) : x \in {e}} : TRUE

RECURSIVE SqrtIter(_, _)
SqrtIter(n, x) ==
    LET y == (x + n \div x) \div 2
    IN  IF y >= x THEN x ELSE SqrtIter(n, y)

\* Math.sqrt on the lattice (floor of the root)
MathSqrt(n) == IF n <= 0 THEN 0 ELSE SqrtIter(n, n)

\* 3 * sin(phase): Math.sin(phase) * 0.3 in tenths, phase in milliradians
\* (Bhaskara's rational approximation of the sine on [0, pi])
SinTimes3(phase) ==
    LET m == phase % (2 * PI_MRAD)
        x == IF m <= PI_MRAD THEN m ELSE m - PI_MRAD
        p == x * (PI_MRAD - x)
        v == RoundDiv(48 * p, 5 * PI_MRAD * PI_MRAD - 4 * p)
    IN  IF m <= PI_MRAD THEN v ELSE -v

\* Math.ceil of a health value: health only ever changes by the integers
\* 20 and 10 from 100, so the value is integral and ceil returns it
MathCeil(h) == h

(***************************************************************************)
(* Projection module (vectorMath).                                         *)
(***************************************************************************)
Sign(a) == IF a > 0 THEN 1 ELSE IF a < 0 THEN -1 ELSE 0

\* a / b on the lattice for a divisor of either sign, b # 0
SignedDiv(a, b) == IF b > 0 THEN RoundDiv(a, b) ELSE -RoundDiv(a, -b)

\* lines 70-85 when 1 - slopeY * tan is 0: pitchZ = rZ * (...) / 0 is an
\* infinity of the numerator's sign (NaN for 0 / 0), scale = FOV / pitchZ
\* is a zero, rX = sx / scale an infinity (NaN when sx is 0), and pitchY,
\* rY infinities of pitchZ's sign (slopeY is 1 / tan, positive)
unprojectDegenerate(sx, numer, targetZ) ==
    IF Sign(numer) = 0
    THEN [x |-> 0, y |-> 0, z |-> targetZ, nan |-> {"x", "y"}, inf |-> {}]
    ELSE [x |-> Sign(sx) * Sign(numer), y |-> Sign(numer), z |-> targetZ,
          nan |-> IF sx = 0 THEN {"x"} ELSE {},
          inf |-> IF sx = 0 THEN {"y"} ELSE {"x", "y"}]

\* lines 66-70: slopeY, the denominator 1 - slopeY * tan (thousandths), the
\* numerator rZ * (sin * tan + cos), and pitchZ (tenths) where it is defined
UnprojectSlopeY(normY, h) == RoundDiv(-(normY * (h \div 2)), FOV)
UnprojectDenom(normY, h) == 1000 - RoundDiv(UnprojectSlopeY(normY, h) * TAN_PITCH, 1000)
UnprojectNumer(targetZ) ==
    (targetZ - CAMERA_POS.z) * (RoundDiv(SIN_PITCH * TAN_PITCH, 1000) + COS_PITCH)
UnprojectPitchZ(normY, targetZ, h) ==
    SignedDiv(UnprojectNumer(targetZ), UnprojectDenom(normY, h))

\* the screen point of projectVector, or its null (visible = FALSE)
Screen(x, y) == [visible |-> TRUE, x |-> x, y |-> y, nan |-> {}, inf |-> {}]
NoScreen == [visible |-> FALSE, x |-> 0, y |-> 0, nan |-> {}, inf |-> {}]

\* the projection with the pitch rotation left out
projectVector_NoPitch(v, w, h) ==
    LET rX == v.x - CAMERA_POS.x
        rY == v.y - CAMERA_POS.y
        rZ == v.z - CAMERA_POS.z
    IN  IF {"y", "z"} \cap (v.inf \cup v.nan) # {} THEN NoScreen
        ELSE IF rZ <= NEAR_CLIP \/ rZ > VIEW_DISTANCE THEN NoScreen
        ELSE Screen(RoundDiv(rX * FOV, rZ) + w \div 2, - RoundDiv(rY * FOV, rZ) + h \div 2)

\* lines 15-44 (pixels).  An infinite y or z makes pitchZ an infinity, which
\* one of the two clip tests rejects; a NaN y or z makes pitchZ NaN, which
\* passes both tests and makes both screen coordinates NaN; a non-finite x
\* alone reaches the screen x.
projectVector(v, w, h) ==
    LET rX == v.x - CAMERA_POS.x
        rY == v.y - CAMERA_POS.y
        rZ == v.z - CAMERA_POS.z
        pitchY == RoundDiv(rY * COS_PITCH - rZ * SIN_PITCH, 1000)
        pitchZ == RoundDiv(rY * SIN_PITCH + rZ * COS_PITCH, 1000)
    IN  IF {"y", "z"} \cap v.inf # {} THEN NoScreen
        ELSE IF {"y", "z"} \cap v.nan # {}
        THEN [Screen(0, 0) EXCEPT !.nan = {"x", "y"}]
        ELSE IF pitchZ <= NEAR_CLIP \/ pitchZ > VIEW_DISTANCE THEN NoScreen
        ELSE [Screen(IF {"x"} \cap (v.nan \cup v.inf) # {} THEN v.x
                     ELSE RoundDiv(rX * FOV, pitchZ) + w \div 2,
                     - RoundDiv(pitchY * FOV, pitchZ) + h \div 2)
                EXCEPT !.nan = {"x"} \cap v.nan, !.inf = {"x"} \cap v.inf]

unprojectVector(normX, normY, targetZ, w, h) ==
    LET rZ     == targetZ - CAMERA_POS.z
        slopeY == UnprojectSlopeY(normY, h)
        denom  == UnprojectDenom(normY, h)
        k      == RoundDiv(SIN_PITCH * TAN_PITCH, 1000) + COS_PITCH
    IN  IF denom = 0
        THEN unprojectDegenerate(normX * (w \div 2), rZ * k, targetZ)
        ELSE LET pitchZ == SignedDiv(rZ * k, denom)
                 slopeX == RoundDiv(normX * (w \div 2), FOV)
                 rX     == RoundDiv(slopeX * pitchZ, 1000)
                 pitchY == RoundDiv(slopeY * pitchZ, 1000)
                 rY     == RoundDiv(pitchY * COS_PITCH + pitchZ * SIN_PITCH, 1000)
             IN  [x |-> rX + CAMERA_POS.x, y |-> rY + CAMERA_POS.y, z |-> targetZ,
                  nan |-> {}, inf |-> {}]

\* only the first sphere's radius counted
checkCollision_OneSided(a, rA, b, rB) ==
    LET dx == a.x - b.x
        dy == a.y - b.y
        dz == a.z - b.z
        distSq == dx * dx + dy * dy + dz * dz
    IN  a.nan = {} /\ b.nan = {} /\ distSq < rA * rA

\* touching spheres counted as colliding
checkCollision_Touching(a, rA, b, rB) ==
    LET dx == a.x - b.x
        dy == a.y - b.y
        dz == a.z - b.z
        distSq == dx * dx + dy * dy + dz * dz
        radSum == rA + rB
    IN  a.nan = {} /\ b.nan = {} /\ distSq <= radSum * radSum

\* a NaN coordinate makes distSq NaN, and NaN < x is false
checkCollision(a, rA, b, rB) ==
    LET dx == a.x - b.x
        dy == a.y - b.y
        dz == a.z - b.z
        distSq == dx * dx + dy * dy + dz * dz
        radSum == rA + rB
    IN  a.nan = {} /\ b.nan = {} /\ distSq < radSum * radSum

(***************************************************************************)
(* Entity / particle store.                                                *)
(***************************************************************************)
\* src/components/GameEngine.tsx:41  the player's collision radius (tenths)
PLAYER_RADIUS == 30
\* src/components/GameEngine.tsx:39  the player's starting health
PLAYER_HEALTH == 100
\* src/components/GameEngine.tsx:271  a spawned enemy: health, scoreValue, radius
ENEMY_HEALTH == 50
ENEMY_SCORE == 100
ENEMY_RADIUS == 40
\* src/components/GameEngine.tsx:268  a spawned enemy's world Z (tenths)
ENEMY_SPAWN_Z == 4000
\* src/components/GameEngine.tsx:294  a projectile's radius (tenths) and health
PROJECTILE_RADIUS == 20
PROJECTILE_HEALTH == 1
\* src/components/GameEngine.tsx:276  projectile speeds 6.0 / 2.0 (tenths per 16 ms)
PLAYER_SHOT_SPEED == 60
ENEMY_SHOT_SPEED == 20
\* src/components/GameEngine.tsx:291  a projectile starts 5 ahead of / behind its owner
SHOT_OFFSET == 50
\* src/components/GameEngine.tsx:220,231,237  damage dealt by the three collisions
SHOT_DAMAGE == 50
RAM_DAMAGE == 20
ENEMY_SHOT_DAMAGE == 10
\* src/components/GameEngine.tsx:214  culling planes (tenths)
CULL_NEAR == -400
CULL_FAR == 5000
\* src/components/GameEngine.tsx:209  band in which an enemy may shoot (tenths)
SHOOT_NEAR == 500
SHOOT_FAR == 3000
\* src/components/GameEngine.tsx:181  grace period before enemies spawn (ms)
SPAWN_GRACE == 1500
\* src/components/GameEngine.tsx:174  thruster cadence: gameTime % 30 < 16
THRUST_PERIOD == 30
THRUST_ON == 16
\* src/components/GameEngine.tsx:259,303  particle lifetimes (ms); 299: explosion size
THRUST_LIFE == 200
EXPLOSION_LIFE == 500
EXPLOSION_COUNT == 15

Vec(x, y, z) == [x |-> x, y |-> y, z |-> z, nan |-> {}, inf |-> {}]

\* v + d per coordinate, d a finite displacement: a NaN coordinate stays NaN
Moved(v, dx, dy, dz) ==
    [v EXCEPT !.x = IF "x" \in v.nan THEN 0 ELSE @ + dx,
              !.y = IF "y" \in v.nan THEN 0 ELSE @ + dy,
              !.z = IF "z" \in v.nan THEN 0 ELSE @ + dz]

IsEnemy(ent) == ent.type = "ENEMY_Interceptor"

\* The random velocity jitter of a particle is left at its mean, zero: no
\* gameplay value reads a particle.
spawnThrusterParticle(particles, pos) ==
    particles
      \o << [position |-> Moved(pos, -10, 0, -20), velocity |-> Vec(0, 0, -20),
             life |-> THRUST_LIFE, maxLife |-> THRUST_LIFE],
            [position |-> Moved(pos, 10, 0, -20), velocity |-> Vec(0, 0, -20),
             life |-> THRUST_LIFE, maxLife |-> THRUST_LIFE] >>

spawnExplosion(particles, pos) ==
    particles
      \o [i \in 1..EXPLOSION_COUNT |->
            [position |-> pos, velocity |-> Vec(0, 0, 0),
             life |-> EXPLOSION_LIFE, maxLife |-> EXPLOSION_LIFE]]

\* rnd.x, rnd.y: Math.random() * 80 - 40 and Math.random() * 20 (tenths);
\* rnd.id: Number(id) of the random id string (thousandths)
spawnEnemy(ents, rnd) ==
    Append(ents,
           [id |-> rnd.id, type |-> "ENEMY_Interceptor",
            position |-> Vec(rnd.x, rnd.y, ENEMY_SPAWN_Z), velocity |-> Vec(0, 0, 0),
            active |-> TRUE, health |-> ENEMY_HEALTH, scoreValue |-> ENEMY_SCORE,
            radius |-> ENEMY_RADIUS])

\* lines 277-286: the velocity (d / dist) * speed.  A NaN difference makes
\* dist and with it every component NaN; an infinite difference makes dist
\* infinite, so that component is NaN (inf / inf) and the finite ones are 0;
\* equal points give 0 / 0, NaN in every component.
ShotVelocity(startPos, targetPos, speed) ==
    LET dx == targetPos.x - startPos.x
        dy == targetPos.y - startPos.y
        dz == targetPos.z - startPos.z
        nans == startPos.nan \cup targetPos.nan
        infs == (startPos.inf \cup targetPos.inf) \ nans
        dist == MathSqrt(dx * dx + dy * dy + dz * dz)
    IN  IF nans # {} THEN [Vec(0, 0, 0) EXCEPT !.nan = {"x", "y", "z"}]
        ELSE IF infs # {} THEN [Vec(0, 0, 0) EXCEPT !.nan = infs]
        ELSE IF dist = 0 THEN [Vec(0, 0, 0) EXCEPT !.nan = {"x", "y", "z"}]
        ELSE Vec(RoundDiv(dx * speed, dist), RoundDiv(dy * speed, dist),
                 RoundDiv(dz * speed, dist))

spawnProjectile(ents, startPos, targetPos, isPlayer) ==
    LET speed == IF isPlayer THEN PLAYER_SHOT_SPEED ELSE ENEMY_SHOT_SPEED
        vel == ShotVelocity(startPos, targetPos, speed)
    IN  Append(ents,
               [id |-> 0,
                type |-> IF isPlayer THEN "PROJECTILE_Player" ELSE "PROJECTILE_Enemy",
                position |-> Moved(startPos, 0, 0,
                                   IF isPlayer THEN SHOT_OFFSET ELSE -SHOT_OFFSET),
                velocity |-> vel,
                active |-> TRUE, health |-> PROJECTILE_HEALTH, scoreValue |-> 0,
                radius |-> PROJECTILE_RADIUS])

(***************************************************************************)
(* Simulation step, the entity pass (update, lines 196-242).  The pass     *)
(* works on a record st of the values it mutates:                          *)
(*   ents (entitiesRef.current), player (playerRef.current),               *)
(*   score (scoreRef.current), particles (particlesRef.current),           *)
(* and kills, a history counter of the enemies whose health a player       *)
(* projectile brought from above zero to zero or below.                    *)
(***************************************************************************)
\* the part of a record the entity pass reads and writes (the particles
\* it only appends to are left out)
PassState(s) ==
    [ents |-> s.ents, player |-> s.player, score |-> s.score, kills |-> s.kills,
     particles |-> << >>]

RECURSIVE PlayerShotsFrom(_, _)
\* entitiesRef.current.filter(p => p.type === 'PROJECTILE_Player' && p.active),
\* as the indices of the store, in store order
PlayerShotsFrom(ents, j) ==
    IF j > Len(ents) THEN << >>
    ELSE IF ents[j].type = "PROJECTILE_Player" /\ ents[j].active
         THEN <<j>> \o PlayerShotsFrom(ents, j + 1)
         ELSE PlayerShotsFrom(ents, j + 1)

\* the body of the inner forEach for enemy i and projectile j (lines 219-227)
HitEnemy(st, i, j) ==
    LET ent    == st.ents[i]
        health == ent.health - SHOT_DAMAGE
        dead   == health <= 0
    IN  [st EXCEPT
           !.ents = [@ EXCEPT ![i].health = health,
                              ![i].active = IF dead THEN FALSE ELSE @,
                              ![j].active = FALSE],
           !.particles = spawnExplosion(@, ent.position),
           !.score = IF dead THEN @ + ent.scoreValue ELSE @,
           !.kills = IF dead /\ ent.health > 0 THEN @ + 1 ELSE @]

RECURSIVE ShotsVsEnemy(_, _, _)
ShotsVsEnemy(st, i, shots) ==
    IF shots = << >> THEN st
    ELSE LET j == Head(shots)
             ent == st.ents[i]
             proj == st.ents[j]
         IN  IF checkCollision(ent.position, ent.radius, proj.position, proj.radius)
             THEN Bind(HitEnemy(st, i, j), LAMBDA hit : ShotsVsEnemy(hit, i, Tail(shots)))
             ELSE ShotsVsEnemy(st, i, Tail(shots))

\* the ram test skipped for an enemy a projectile has just destroyed
EnemyVsPlayer_IfAlive(st, i) ==
    LET ent == st.ents[i]
    IN  IF /\ ent.active
           /\ checkCollision(st.player.position, st.player.radius, ent.position, ent.radius)
        THEN [st EXCEPT !.ents[i].active = FALSE,
                        !.player.health = @ - RAM_DAMAGE,
                        !.particles = spawnExplosion(@, st.player.position)]
        ELSE st

\* a ram that also costs the enemy's scoreValue
EnemyVsPlayer_Penalty(st, i) ==
    LET ent == st.ents[i]
    IN  IF checkCollision(st.player.position, st.player.radius, ent.position, ent.radius)
        THEN [st EXCEPT !.ents[i].active = FALSE,
                        !.player.health = @ - RAM_DAMAGE,
                        !.score = @ - ent.scoreValue,
                        !.particles = spawnExplosion(@, st.player.position)]
        ELSE st

\* lines 229-233: the enemy rams the player
EnemyVsPlayer(st, i) ==
    LET ent == st.ents[i]
    IN  IF checkCollision(st.player.position, st.player.radius, ent.position, ent.radius)
        THEN [st EXCEPT !.ents[i].active = FALSE,
                        !.player.health = @ - RAM_DAMAGE,
                        !.particles = spawnExplosion(@, st.player.position)]
        ELSE st

\* lines 235-239: an enemy projectile reaches the player
EnemyShotVsPlayer(st, i) ==
    LET ent == st.ents[i]
    IN  IF /\ ent.type = "PROJECTILE_Enemy"
           /\ ent.active
           /\ checkCollision(st.player.position, st.player.radius, ent.position, ent.radius)
        THEN [st EXCEPT !.ents[i].active = FALSE,
                        !.player.health = @ - ENEMY_SHOT_DAMAGE,
                        !.particles = spawnExplosion(@, st.player.position)]
        ELSE st

\* lines 199-212: the movement of entity i; shoots: Math.random() < 0.015
MoveEntity(st, i, dt, scrollSpeed, shoots) ==
    LET ent == st.ents[i]
    IN  IF ent.type = "PROJECTILE_Player"
        THEN [st EXCEPT !.ents[i].position =
                 Moved([@ EXCEPT !.nan = @ \cup ent.velocity.nan],
                       RoundDiv(ent.velocity.x * dt, NOMINAL_FRAME),
                       RoundDiv(ent.velocity.y * dt, NOMINAL_FRAME),
                       RoundDiv(ent.velocity.z * dt, NOMINAL_FRAME))]
        ELSE IF ent.type = "PROJECTILE_Enemy"
        THEN [st EXCEPT !.ents[i].position =
                 Moved(@, 0, 0, - RoundDiv(ENEMY_SHOT_SPEED * dt, NOMINAL_FRAME))]
        ELSE IF IsEnemy(ent)
        THEN LET z == ent.position.z - scrollSpeed
                 x == ent.position.x + SinTimes3(2 * z + ent.id)
                 pos == [ent.position EXCEPT !.x = x, !.z = z]
             IN  IF shoots /\ z > SHOOT_NEAR /\ z < SHOOT_FAR
                 THEN [st EXCEPT !.ents =
                          spawnProjectile([@ EXCEPT ![i].position = pos], pos,
                                          st.player.position, FALSE)]
                 ELSE [st EXCEPT !.ents[i].position = pos]
        ELSE st

\* line 214 (both comparisons are false for a NaN z)
CullEntity(st, i) ==
    IF /\ "z" \notin st.ents[i].position.nan
       /\ st.ents[i].position.z < CULL_NEAR \/ st.ents[i].position.z > CULL_FAR
    THEN [st EXCEPT !.ents[i].active = FALSE]
    ELSE st

\* lines 217-234: the collisions of an enemy that is still active after culling
EnemyCollisions(st, i) ==
    IF IsEnemy(st.ents[i]) /\ st.ents[i].active
    THEN Bind(ShotsVsEnemy(st, i, PlayerShotsFrom(st.ents, 1)),
              LAMBDA shot : EnemyVsPlayer(shot, i))
    ELSE st

\* the callback of entitiesRef.current.forEach for the entity at index i
EntityStep(st, i, dt, scrollSpeed, shoots) ==
    IF ~st.ents[i].active THEN st
    ELSE Bind(MoveEntity(st, i, dt, scrollSpeed, shoots), LAMBDA moved :
         Bind(CullEntity(moved, i), LAMBDA culled :
         Bind(EnemyCollisions(culled, i), LAMBDA collided :
              EnemyShotVsPlayer(collided, i))))

RECURSIVE ForEachEntity(_, _, _, _, _, _)
\* forEach visits the n entities the store held when the loop began; those
\* appended during the loop are not visited
ForEachEntity(st, i, n, dt, scrollSpeed, shooters) ==
    IF i > n THEN st
    ELSE Bind(EntityStep(st, i, dt, scrollSpeed, i \in shooters), LAMBDA next :
              ForEachEntity(next, i + 1, n, dt, scrollSpeed, shooters))

\* line 242 and 251: the compaction filters
FilterActive(ents) == SelectSeq(ents, LAMBDA e : e.active)
FilterAlive(particles) == SelectSeq(particles, LAMBDA p : p.life > 0)

\* lines 245-250
MoveParticles(particles, dt) ==
    [k \in 1..Len(particles) |->
        [particles[k] EXCEPT
           !.position = Moved(@, RoundDiv(particles[k].velocity.x * dt, NOMINAL_FRAME),
                                 RoundDiv(particles[k].velocity.y * dt, NOMINAL_FRAME),
                                 RoundDiv(particles[k].velocity.z * dt, NOMINAL_FRAME)),
           !.life = @ - dt]]

(***************************************************************************)
(* Inputs of the exploration: elapsed times between frame callbacks (ms),  *)
(* pointer positions (pixels), and the outcomes of Math.random().          *)
(***************************************************************************)
DtChoices == {16, 1408, 2480, 2560}
PointerChoices == { <<600, 450>> }
SpawnXs == {0}
SpawnYs == {0, 50}
SpawnIds == {0}

(***************************************************************************)
(* Simulation step (update, lines 138-252).  s is the record of the refs;  *)
(* s.gameTime already holds the frame's time (animate adds dt first).      *)
(* rnd: the frame's random outcomes - spawn (Math.random() < 0.02 *        *)
(* enemyDensity), x, y, id of the spawned enemy, shooters (the store       *)
(* indices whose Math.random() < 0.015).                                   *)
(***************************************************************************)
\* timeNow(): the wall clock, read in the frame whose timestamp is time
timeNow(time) == time

\* lines 142-143
SmoothReticle(reticle, input) ==
    [x |-> reticle.x + RoundDiv((input.x - reticle.x) * RETICLE_LAG, 100),
     y |-> reticle.y + RoundDiv((input.y - reticle.y) * RETICLE_LAG, 100)]

\* lines 149-171: the ship follows the raw input, clamped to the screen bounds
\* Math.max(lo, Math.min(hi, v)) for the coordinate named c of vector v: a
\* NaN passes through both, an infinity is brought to the bound on its side
Clamp(lo, hi, v, c) ==
    IF c \in v.inf THEN (IF v[c] > 0 THEN hi ELSE lo)
    ELSE Max(lo, Min(hi, v[c]))

\* the rotation of a ship whose x is NaN is NaN as well; nothing reads it,
\* and the record keeps 0 for it
MoveShip(player, input) ==
    LET rightEdge == unprojectVector(1000, 0, 0, width, height).x
        xLimit    == Max(100, rightEdge - SHIP_MARGIN)
        topEdge   == unprojectVector(0, -1000, 0, width, height).y
        yMax      == topEdge - 30
        moveTargetPos == unprojectVector(input.x, input.y, 0, width, height)
        targetX   == Clamp(-xLimit, xLimit, moveTargetPos, "x")
        targetY   == Clamp(FLOOR_Y + 10, yMax, moveTargetPos, "y")
        nans      == player.position.nan \cup moveTargetPos.nan
        x == IF "x" \in nans THEN 0
             ELSE player.position.x + RoundDiv((targetX - player.position.x) * SHIP_LAG, 100)
        y == IF "y" \in nans THEN 0
             ELSE player.position.y + RoundDiv((targetY - player.position.y) * SHIP_LAG, 100)
    IN  [player EXCEPT !.position = [@ EXCEPT !.x = x, !.y = y, !.nan = nans],
                       !.rotation = IF "x" \in nans THEN 0 ELSE (x - targetX) * 6]

\* line 178 (speedModifier in tenths)
ScrollSpeed(dt) ==
    RoundDiv(BASE_SCROLL_SPEED * mission.speedModifier * dt, 10 * NOMINAL_FRAME)

\* the shot aimed at the smoothed reticle instead of the raw input
FirePlayerShot_AtReticle(s, time) ==
    IF timeNow(time) - s.lastFireTime > FIRE_RATE
    THEN LET aimPos == unprojectVector(s.reticle.x, s.reticle.y, AIM_DISTANCE, width, height)
         IN  [s EXCEPT !.ents = spawnProjectile(@, s.player.position, aimPos, TRUE),
                       !.lastFireTime = timeNow(time)]
    ELSE s

\* lines 186-193: isFiring is always true, the fire rate is the only gate
FirePlayerShot(s, time) ==
    IF timeNow(time) - s.lastFireTime > FIRE_RATE
    THEN LET aimPos == unprojectVector(s.input.x, s.input.y, AIM_DISTANCE, width, height)
         IN  [s EXCEPT !.ents = spawnProjectile(@, s.player.position, aimPos, TRUE),
                       !.lastFireTime = timeNow(time)]
    ELSE s

\* lines 139-193: what update does before it walks the entity store
\* line 174
Thrusters(s) ==
    IF s.gameTime % THRUST_PERIOD < THRUST_ON
    THEN [s EXCEPT !.particles = spawnThrusterParticle(@, s.player.position)]
    ELSE s

\* line 181
Spawning(s, rnd) ==
    IF s.gameTime > SPAWN_GRACE /\ rnd.spawn
    THEN [s EXCEPT !.ents = spawnEnemy(@, rnd)]
    ELSE s

BeforeEntities(s, time, rnd) ==
    Bind([s EXCEPT !.reticle = SmoothReticle(@, s.input),
                   !.player = MoveShip(@, s.input)], LAMBDA s1 :
    Bind(Thrusters(s1), LAMBDA s2 :
    Bind(Spawning(s2, rnd), LAMBDA s3 :
         FirePlayerShot(s3, time))))

\* lines 242-251: the stores compacted after the entity pass from s4 to s5
Compact(s4, s5, dt) ==
    [s5 EXCEPT !.pre = PassState(s4),
               !.pass = s5.ents,
               !.ents = FilterActive(@),
               !.particles = FilterAlive(MoveParticles(@, dt))]

update(s, dt, time, rnd) ==
    Bind(BeforeEntities(s, time, rnd), LAMBDA s4 :
    Bind(ForEachEntity(s4, 1, Len(s4.ents), dt, ScrollSpeed(dt), rnd.shooters),
         LAMBDA s5 : Compact(s4, s5, dt)))

(***************************************************************************)
(* The frame callback (animate, lines 97-130).  cpaused is the value of    *)
(* the paused prop the callback closed over.  The result carries what the  *)
(* callback did: updated, rendered, emitted (the notifications, in order)  *)
(* and again (whether it requested another frame).                         *)
(***************************************************************************)
Notify(kind, value) == [kind |-> kind, value |-> value]

\* the score reported without remembering it as reported
ReportScore_Forgetful(s) ==
    IF s.score # s.lastReportedScore
    THEN [s EXCEPT !.emitted = Append(@, Notify("score", s.score))]
    ELSE s

ReportScore(s) ==
    IF s.score # s.lastReportedScore
    THEN [s EXCEPT !.emitted = Append(@, Notify("score", s.score)),
                   !.lastReportedScore = s.score]
    ELSE s

ReportHealth(s) ==
    IF MathCeil(s.player.health) # s.lastReportedHealth
    THEN [s EXCEPT !.lastReportedHealth = MathCeil(s.player.health),
                   !.emitted = Append(@, Notify("health", MathCeil(s.player.health)))]
    ELSE s

\* the threshold off by one: health 0 still continues
ContinueOrEnd_Strict(s) ==
    IF s.player.health >= 0
    THEN [s EXCEPT !.again = TRUE]
    ELSE [s EXCEPT !.emitted = Append(@, Notify("gameOver", s.score))]

\* lines 121-125: request the next frame, or report the end of the game
ContinueOrEnd(s) ==
    IF s.player.health > 0
    THEN [s EXCEPT !.again = TRUE]
    ELSE [s EXCEPT !.emitted = Append(@, Notify("gameOver", s.score))]

\* the game clock advanced outside the pause gate
animate_ClockRuns(s, time, cpaused, rnd) ==
    LET lastTime  == IF s.lastTime = 0 THEN time ELSE s.lastTime
        deltaTime == time - lastTime
        s0 == [s EXCEPT !.lastTime = time, !.dt = deltaTime, !.emitted = << >>,
                        !.again = FALSE, !.updated = FALSE, !.rendered = FALSE,
                        !.pre = PassState([s EXCEPT !.ents = << >>]), !.pass = << >>,
                        !.gameTime = @ + deltaTime]
    IN  IF ~cpaused
        THEN Bind(update(s0, deltaTime, time, rnd), LAMBDA s2 :
             Bind(ReportScore([s2 EXCEPT !.updated = TRUE, !.rendered = TRUE]),
                  LAMBDA s3 :
             Bind(ReportHealth(s3), LAMBDA s4 : ContinueOrEnd(s4))))
        ELSE [s0 EXCEPT !.rendered = TRUE, !.again = TRUE]

\* the frame clock advanced only by unpaused frames
animate_StaleClock(s, time, cpaused, rnd) ==
    LET lastTime  == IF s.lastTime = 0 THEN time ELSE s.lastTime
        deltaTime == time - lastTime
        s0 == [s EXCEPT !.lastTime = IF cpaused THEN lastTime ELSE time,
                        !.dt = deltaTime, !.emitted = << >>,
                        !.again = FALSE, !.updated = FALSE, !.rendered = FALSE,
                        !.pre = PassState([s EXCEPT !.ents = << >>]), !.pass = << >>]
    IN  IF ~cpaused
        THEN Bind([s0 EXCEPT !.gameTime = @ + deltaTime], LAMBDA s1 :
             Bind(update(s1, deltaTime, time, rnd), LAMBDA s2 :
             Bind(ReportScore([s2 EXCEPT !.updated = TRUE, !.rendered = TRUE]),
                  LAMBDA s3 :
             Bind(ReportHealth(s3), LAMBDA s4 : ContinueOrEnd(s4)))))
        ELSE [s0 EXCEPT !.rendered = TRUE, !.again = TRUE]

animate(s, time, cpaused, rnd) ==
    LET lastTime  == IF s.lastTime = 0 THEN time ELSE s.lastTime
        deltaTime == time - lastTime
        s0 == [s EXCEPT !.lastTime = time, !.dt = deltaTime, !.emitted = << >>,
                        !.again = FALSE, !.updated = FALSE, !.rendered = FALSE,
                        !.pre = PassState([s EXCEPT !.ents = << >>]), !.pass = << >>]
    IN  IF ~cpaused
        THEN Bind([s0 EXCEPT !.gameTime = @ + deltaTime], LAMBDA s1 :
             Bind(update(s1, deltaTime, time, rnd), LAMBDA s2 :
             Bind(ReportScore([s2 EXCEPT !.updated = TRUE, !.rendered = TRUE]),
                  LAMBDA s3 :
             Bind(ReportHealth(s3), LAMBDA s4 : ContinueOrEnd(s4)))))
        ELSE [s0 EXCEPT !.rendered = TRUE, !.again = TRUE]

(***************************************************************************)
(* State.                                                                  *)
(*   The refs of the component keep their names.  paused is the prop;      *)
(*   mounted is whether the component is mounted; pending is the host's    *)
(*   queue of requested frame callbacks, each with its handle and the      *)
(*   paused value its animate closure captured; nextHandle is the handle   *)
(*   the next requestAnimationFrame returns.                               *)
(*   History (written, never read by the program): frames, toggles (how    *)
(*   many callbacks and prop changes the exploration has taken),           *)
(*   updates, renders, gameOvers (how often update, render and onGameOver  *)
(*   have run), kills, and last: what the latest callback did.             *)
(*   call is a call of one of the helpers outside the component (the       *)
(*   mission service, the projection module) with its arguments and, once  *)
(*   it has returned, its result; the component's own runs have none.      *)
(***************************************************************************)
VARIABLES lastTimeRef, playerRef, entitiesRef, particlesRef, scoreRef,
          lastReportedScoreRef, lastReportedHealthRef, gameTimeRef,
          lastFireTimeRef, inputRef, reticleRef, requestRef,
          paused, mounted, pending, nextHandle,
          frames, toggles, updates, renders, gameOvers, kills, last,
          call

refs == << lastTimeRef, playerRef, entitiesRef, particlesRef, scoreRef,
           lastReportedScoreRef, lastReportedHealthRef, gameTimeRef,
           lastFireTimeRef, inputRef, reticleRef >>

vars == << lastTimeRef, playerRef, entitiesRef, particlesRef, scoreRef,
           lastReportedScoreRef, lastReportedHealthRef, gameTimeRef,
           lastFireTimeRef, inputRef, reticleRef, requestRef,
           paused, mounted, pending, nextHandle,
           frames, toggles, updates, renders, gameOvers, kills, last,
           call >>

\* the variables of the component and of its exploration
engine == << lastTimeRef, playerRef, entitiesRef, particlesRef, scoreRef,
             lastReportedScoreRef, lastReportedHealthRef, gameTimeRef,
             lastFireTimeRef, inputRef, reticleRef, requestRef,
             paused, mounted, pending, nextHandle,
             frames, toggles, updates, renders, gameOvers, kills, last >>

\* what the latest frame callback did; before the first one, nothing
NoFrame == [dt |-> 0, cpaused |-> FALSE, updated |-> FALSE, rendered |-> FALSE,
            emitted |-> << >>, again |-> FALSE, pass |-> << >>,
            pre |-> [ents |-> << >>,
                     player |-> [position |-> Vec(0, 0, 0), rotation |-> 0,
                                 health |-> PLAYER_HEALTH, radius |-> PLAYER_RADIUS],
                     score |-> 0, kills |-> 0, particles |-> << >>],
            rnd |-> [spawn |-> FALSE, x |-> 0, y |-> 0, id |-> 0, shooters |-> {}]]

\* the refs as the record the operators above work on
Current ==
    [lastTime |-> lastTimeRef, player |-> playerRef, ents |-> entitiesRef,
     particles |-> particlesRef, score |-> scoreRef,
     lastReportedScore |-> lastReportedScoreRef,
     lastReportedHealth |-> lastReportedHealthRef, gameTime |-> gameTimeRef,
     lastFireTime |-> lastFireTimeRef, input |-> inputRef, reticle |-> reticleRef,
     kills |-> kills,
     dt |-> 0, emitted |-> << >>, again |-> FALSE, updated |-> FALSE,
     rendered |-> FALSE, pass |-> << >>,
     pre |-> [ents |-> << >>, player |-> playerRef, score |-> scoreRef,
              kills |-> kills, particles |-> << >>]]

\* requestAnimationFrame(animate) / cancelAnimationFrame(handle) on the host queue
Request(queue, handle, cpaused) == queue \cup {[handle |-> handle, paused |-> cpaused]}
\* a cancelAnimationFrame that removes nothing
Cancel_Nothing(queue, handle) == queue
Cancel(queue, handle) == {r \in queue : r.handle # handle}

\* no helper call under way
NoCall == [fn |-> "none"]

\* lines 26-56 (the refs' initial values) and 132-135 (the effect's first request)
InitRefs ==
    /\ lastTimeRef = 0
    /\ playerRef = [position |-> Vec(0, 0, 0), rotation |-> 0,
                    health |-> PLAYER_HEALTH, radius |-> PLAYER_RADIUS]
    /\ entitiesRef = << >>
    /\ particlesRef = << >>
    /\ scoreRef = 0
    /\ lastReportedScoreRef = 0
    /\ lastReportedHealthRef = PLAYER_HEALTH
    /\ gameTimeRef = 0
    /\ lastFireTimeRef = 0
    /\ inputRef = [x |-> 0, y |-> 0, active |-> FALSE]
    /\ reticleRef = [x |-> 0, y |-> 0]
    /\ paused = FALSE
    /\ mounted = TRUE
    /\ pending = Request({}, 1, FALSE)
    /\ requestRef = 1
    /\ nextHandle = 2
    /\ frames = 0 /\ toggles = 0
    /\ updates = 0 /\ renders = 0 /\ gameOvers = 0 /\ kills = 0
    /\ last = NoFrame

Init == InitRefs /\ call = NoCall

NumEnemies(ents) == Cardinality({i \in 1..Len(ents) : IsEnemy(ents[i])})

\* the enemies that are inside the shooting band after this frame's scroll:
\* only their Math.random() < 0.015 draw has an effect
CanShoot(ents, dt) ==
    {i \in 1..Len(ents) :
        /\ IsEnemy(ents[i])
        /\ ents[i].position.z - ScrollSpeed(dt) > SHOOT_NEAR
        /\ ents[i].position.z - ScrollSpeed(dt) < SHOOT_FAR}

\* the random outcomes a frame can draw; a paused frame draws none
RandomChoices(dt, cpaused) ==
    LET spawned == IF /\ ~ cpaused
                      /\ gameTimeRef + dt > SPAWN_GRACE
                      /\ NumEnemies(entitiesRef) < MaxEnemies
                   THEN [spawn : {TRUE}, x : SpawnXs, y : SpawnYs, id : SpawnIds]
                   ELSE {}
        draws == {[spawn |-> FALSE, x |-> 0, y |-> 0, id |-> 0]} \cup spawned
    IN  {[spawn |-> d.spawn, x |-> d.x, y |-> d.y, id |-> d.id, shooters |-> sh] :
            d \in draws,
            sh \in IF cpaused THEN {{}} ELSE SUBSET CanShoot(entitiesRef, dt)}

Count(seq, kind) == Cardinality({k \in 1..Len(seq) : seq[k].kind = kind})

\* The host runs the requested callback r with timestamp time.
RunFrame(r, time, rnd) ==
    \E c \in {Current} : \E n \in {animate(c, time, r.paused, rnd)} :
        /\ lastTimeRef' = n.lastTime
        /\ playerRef' = n.player
        /\ entitiesRef' = n.ents
        /\ particlesRef' = n.particles
        /\ scoreRef' = n.score
        /\ lastReportedScoreRef' = n.lastReportedScore
        /\ lastReportedHealthRef' = n.lastReportedHealth
        /\ gameTimeRef' = n.gameTime
        /\ lastFireTimeRef' = n.lastFireTime
        /\ reticleRef' = n.reticle
        /\ inputRef' = inputRef
        /\ kills' = n.kills
        /\ pending' = IF n.again THEN Request(pending \ {r}, nextHandle, r.paused)
                                 ELSE pending \ {r}
        /\ requestRef' = IF n.again THEN nextHandle ELSE requestRef
        /\ nextHandle' = IF n.again THEN nextHandle + 1 ELSE nextHandle
        /\ frames' = frames + 1
        /\ updates' = IF n.updated THEN updates + 1 ELSE updates
        /\ renders' = IF n.rendered THEN renders + 1 ELSE renders
        /\ gameOvers' = gameOvers + Count(n.emitted, "gameOver")
        /\ last' = [dt |-> n.dt, cpaused |-> r.paused, updated |-> n.updated,
                    rendered |-> n.rendered, emitted |-> n.emitted,
                    again |-> n.again, pre |-> n.pre, pass |-> n.pass, rnd |-> rnd]
        /\ UNCHANGED << paused, mounted, toggles, call >>

\* the first callback of the session: lastTimeRef is still 0
FirstFrame ==
    /\ frames < MaxFrames
    /\ lastTimeRef = 0
    /\ \E r \in pending : \E rnd \in RandomChoices(0, r.paused) :
          RunFrame(r, StartTime, rnd)

\* a later callback, dt ms after the previous one
Frame ==
    /\ frames < MaxFrames
    /\ lastTimeRef # 0
    /\ \E r \in pending : \E dt \in DtChoices :
          \E rnd \in RandomChoices(dt, r.paused) :
             RunFrame(r, lastTimeRef + dt, rnd)

\* The shell changes the paused prop: animate is re-created (paused is one
\* of its dependencies), so the effect of lines 132-135 is cleaned up
\* (cancelAnimationFrame(requestRef.current)) and run again, and the input
\* effect of lines 59-94 re-registers handleMove with the new value.
\* the effect run again without its cleanup: the earlier request is left
SetPaused_NoCleanup ==
    /\ mounted
    /\ toggles < MaxToggles
    /\ paused' = ~ paused
    /\ pending' = Request(pending, nextHandle, ~ paused)
    /\ requestRef' = nextHandle
    /\ nextHandle' = nextHandle + 1
    /\ toggles' = toggles + 1
    /\ UNCHANGED << refs, mounted, frames, updates, renders, gameOvers,
                    kills, last, call >>

SetPaused ==
    /\ mounted
    /\ toggles < MaxToggles
    /\ paused' = ~ paused
    /\ pending' = Request(Cancel(pending, requestRef), nextHandle, ~ paused)
    /\ requestRef' = nextHandle
    /\ nextHandle' = nextHandle + 1
    /\ toggles' = toggles + 1
    /\ UNCHANGED << refs, mounted, frames, updates, renders, gameOvers,
                    kills, last, call >>

\* lines 63-69: a pointer event at pixel (x, y)
handleMove(x, y) ==
    IF paused THEN inputRef
    ELSE [x |-> RoundDiv((x - width \div 2) * 1000, width \div 2),
          y |-> RoundDiv((y - height \div 2) * 1000, height \div 2),
          active |-> TRUE]

PointerMove ==
    /\ mounted
    /\ \E p \in PointerChoices : inputRef' = handleMove(p[1], p[2])
    /\ UNCHANGED << lastTimeRef, playerRef, entitiesRef, particlesRef, scoreRef,
                    lastReportedScoreRef, lastReportedHealthRef, gameTimeRef,
                    lastFireTimeRef, reticleRef, requestRef, paused, mounted,
                    pending, nextHandle, frames, toggles, updates, renders,
                    gameOvers, kills, last, call >>

\* lines 134 and 85-93: the component is unmounted, the effects' cleanups run
Unmount ==
    /\ mounted
    /\ mounted' = FALSE
    /\ pending' = Cancel(pending, requestRef)
    /\ UNCHANGED << refs, requestRef, paused, nextHandle, frames, toggles,
                    updates, renders, gameOvers, kills, last, call >>

Next == FirstFrame \/ Frame \/ SetPaused \/ PointerMove \/ Unmount

Spec == Init /\ [][Next]_vars

(***************************************************************************)
(* Sessions already under way.  A script is a run of frame callbacks from  *)
(* the constructed state, each given as its elapsed time, the paused value *)
(* of its closure and its random outcomes; Play applies animate to the     *)
(* constructed refs once per entry, so the state it yields is one the      *)
(* session reaches.  AfterScript starts the exploration from the end of a  *)
(* script; frames and toggles then count from there.                       *)
(***************************************************************************)
Constructed ==
    [lastTime |-> 0,
     player |-> [position |-> Vec(0, 0, 0), rotation |-> 0,
                 health |-> PLAYER_HEALTH, radius |-> PLAYER_RADIUS],
     ents |-> << >>, particles |-> << >>, score |-> 0,
     lastReportedScore |-> 0, lastReportedHealth |-> PLAYER_HEALTH,
     gameTime |-> 0, lastFireTime |-> 0,
     input |-> [x |-> 0, y |-> 0, active |-> FALSE], reticle |-> [x |-> 0, y |-> 0],
     kills |-> 0,
     dt |-> 0, emitted |-> << >>, again |-> FALSE, updated |-> FALSE,
     rendered |-> FALSE, pass |-> << >>,
     pre |-> [ents |-> << >>,
              player |-> [position |-> Vec(0, 0, 0), rotation |-> 0,
                          health |-> PLAYER_HEALTH, radius |-> PLAYER_RADIUS],
              score |-> 0, kills |-> 0, particles |-> << >>]]

Quiet == [spawn |-> FALSE, x |-> 0, y |-> 0, id |-> 0, shooters |-> {}]
Wave  == [spawn |-> TRUE, x |-> 0, y |-> 50, id |-> 0, shooters |-> {}]
Step(dt, cpaused, rnd) == [dt |-> dt, cpaused |-> cpaused, rnd |-> rnd]

\* four long frames, an enemy spawned in each: it reaches the ship within
\* the frame it spawns in
ScriptAttrition ==
    << Step(0, FALSE, Quiet), Step(2560, FALSE, Wave), Step(2560, FALSE, Wave),
       Step(2560, FALSE, Wave), Step(2560, FALSE, Wave) >>

\* an enemy spawns, the shell pauses and resumes, and the ship fires in the
\* first 16 ms frame after the resume
ScriptDuel ==
    << Step(0, FALSE, Quiet), Step(2560, FALSE, Quiet), Step(16, FALSE, Wave),
       Step(2560, TRUE, Quiet), Step(16, FALSE, Quiet) >>

\* an enemy spawns in a long frame and is 8.4 units ahead of the ship when
\* the next frame comes 90 ms later, too early for the ship to fire again
ScriptApproach ==
    << Step(0, FALSE, Quiet), Step(2416, FALSE, Wave), Step(90, FALSE, Quiet) >>

Scripts == {ScriptAttrition, ScriptDuel, ScriptApproach}

RECURSIVE Play(_, _)
Play(s, script) ==
    IF script = << >> THEN s
    ELSE LET f == Head(script)
             time == IF s.lastTime = 0 THEN StartTime ELSE s.lastTime + f.dt
         IN  Bind(animate(s, time, f.cpaused, f.rnd), LAMBDA n : Play(n, Tail(script)))

\* the number of prop changes a script implies: its closures' paused values
\* change only when the shell toggled the prop in between
RECURSIVE Toggles(_, _)
Toggles(script, was) ==
    IF script = << >> THEN (IF was THEN 1 ELSE 0)
    ELSE (IF Head(script).cpaused # was THEN 1 ELSE 0)
         + Toggles(Tail(script), Head(script).cpaused)

AfterScript ==
    \E script \in Scripts : \E n \in {Play(Constructed, script)} :
        /\ n.again
        /\ lastTimeRef = n.lastTime
        /\ playerRef = n.player
        /\ entitiesRef = n.ents
        /\ particlesRef = n.particles
        /\ scoreRef = n.score
        /\ lastReportedScoreRef = n.lastReportedScore
        /\ lastReportedHealthRef = n.lastReportedHealth
        /\ gameTimeRef = n.gameTime
        /\ lastFireTimeRef = n.lastFireTime
        /\ inputRef = n.input
        /\ reticleRef = n.reticle
        /\ paused = FALSE
        /\ mounted = TRUE
        /\ requestRef = 1 + Len(script) + Toggles(script, FALSE)
        /\ pending = Request({}, requestRef, FALSE)
        /\ nextHandle = requestRef + 1
        /\ frames = 0 /\ toggles = 0
        /\ updates = Cardinality({k \in 1..Len(script) : ~ script[k].cpaused})
        /\ renders = Len(script)
        /\ gameOvers = 0
        /\ kills = n.kills
        /\ last = [dt |-> n.dt, cpaused |-> FALSE, updated |-> n.updated,
                   rendered |-> n.rendered, emitted |-> n.emitted,
                   again |-> n.again, pre |-> n.pre, pass |-> n.pass,
                   rnd |-> script[Len(script)].rnd]
        /\ call = NoCall

\* a session starts as constructed or is picked up at the end of a script
InitMidGame == Init \/ AfterScript

SpecMidGame == InitMidGame /\ [][Next]_vars

(***************************************************************************)
(* Mission service (geminiService.ts).  A JSON value is a record of its    *)
(* type and, for a number, its value in hundredths; a response text is a   *)
(* sequence of tokens.  The service's outcome o is what the environment    *)
(* decides: whether an API key is configured (key), whether the remote     *)
(* call throws (throws), and otherwise the text of the response.           *)
(***************************************************************************)
MaxWave == 2

Num(n) == [type |-> "number", n |-> n]
Str == [type |-> "string", n |-> 0]
Undefined == [type |-> "undefined", n |-> 0]

\* the members of MissionData, in the order of the response schema
MissionFields == << "title", "briefing", "themeColor", "enemyDensity", "speedModifier" >>
NumericFields == {"enemyDensity", "speedModifier"}

LBrace == [t |-> "{", key |-> "", val |-> Undefined]
RBrace == [t |-> "}", key |-> "", val |-> Undefined]
NullToken == [t |-> "null", key |-> "", val |-> Undefined]
Member(key, val) == [t |-> "member", key |-> key, val |-> val]

RECURSIVE LastMember(_, _, _)
\* the value of the last member named key among tokens 2..k of text
LastMember(text, k, key) ==
    IF k < 2 THEN Undefined
    ELSE IF text[k].t = "member" /\ text[k].key = key THEN text[k].val
    ELSE LastMember(text, k - 1, key)

\* JSON.parse: a SyntaxError (ok = FALSE) unless the text is null or an
\* object literal; a member the object lacks reads as undefined
JSONParse(text) ==
    IF text = << NullToken >>
    THEN [ok |-> TRUE,
          value |-> [kind |-> "null",
                     fields |-> [f \in {MissionFields[i] : i \in 1..5} |-> Undefined]]]
    ELSE IF /\ Len(text) >= 2
            /\ text[1] = LBrace
            /\ text[Len(text)] = RBrace
            /\ \A k \in 2..(Len(text) - 1) : text[k].t = "member"
    THEN [ok |-> TRUE,
          value |-> [kind |-> "object",
                     fields |-> [f \in {MissionFields[i] : i \in 1..5} |->
                                    LastMember(text, Len(text) - 1, f)]]]
    ELSE [ok |-> FALSE,
          value |-> [kind |-> "null",
                     fields |-> [f \in {MissionFields[i] : i \in 1..5} |-> Undefined]]]

MissionRecord(density, speed) ==
    [kind |-> "object",
     fields |-> [f \in {MissionFields[i] : i \in 1..5} |->
                    IF f = "enemyDensity" THEN Num(density)
                    ELSE IF f = "speedModifier" THEN Num(speed)
                    ELSE Str]]

Fulfilled(value) == [state |-> "fulfilled", value |-> value]

\* lines 60-70: the catch block's record for the wave
Backup(wave) == MissionRecord(40 + wave * 10, 100 + wave * 5)

generateMission(wave, o) ==
    IF ~ o.key
    THEN Fulfilled(MissionRecord(50, 100))
    ELSE IF o.throws \/ o.text = << >>
    THEN Fulfilled(Backup(wave))
    ELSE Bind(JSONParse(o.text), LAMBDA parsed :
              IF parsed.ok THEN Fulfilled(parsed.value) ELSE Fulfilled(Backup(wave)))

\* The responses the remote service may give.  An object response has each
\* member of the schema either with a value of the schema's type ("typed"),
\* with a value of the other type ("mistyped"), or not at all ("absent").
RECURSIVE ObjectMembers(_, _)
ObjectMembers(shape, i) ==
    IF i > Len(MissionFields) THEN << >>
    ELSE LET f == MissionFields[i]
             numeric == f \in NumericFields
             typed == IF numeric THEN Num(70) ELSE Str
             mistyped == IF numeric THEN Str ELSE Num(100)
         IN  (IF shape[f] = "typed" THEN << Member(f, typed) >>
              ELSE IF shape[f] = "mistyped" THEN << Member(f, mistyped) >>
              ELSE << >>)
             \o ObjectMembers(shape, i + 1)

ObjectText(shape) == << LBrace >> \o ObjectMembers(shape, 1) \o << RBrace >>

ResponseTexts ==
    { << >>, << LBrace >>, << LBrace, Member("title", Str) >>, << NullToken >> }
      \cup { ObjectText(shape) :
                shape \in [{MissionFields[i] : i \in 1..5} -> {"typed", "mistyped", "absent"}] }

ServiceOutcomes ==
    { [key |-> FALSE, throws |-> FALSE, text |-> << >>],
      [key |-> TRUE, throws |-> TRUE, text |-> << >>] }
      \cup { [key |-> TRUE, throws |-> FALSE, text |-> t] : t \in ResponseTexts }

\* the shell calls generateMission(wave) (App.tsx:48) and the environment
\* has decided the service's outcome
InitService ==
    /\ InitRefs
    /\ call \in { [fn |-> "generateMission", wave |-> w, service |-> o,
                    state |-> "pending", value |-> MissionRecord(0, 0)] :
                      w \in 1..MaxWave, o \in ServiceOutcomes }

\* the promise of generateMission settles
GenerateMission ==
    /\ call.fn = "generateMission"
    /\ call.state = "pending"
    /\ \E r \in {generateMission(call.wave, call.service)} :
          call' = [call EXCEPT !.state = r.state, !.value = r.value]
    /\ UNCHANGED engine

NextService == GenerateMission

SpecService == InitService /\ [][NextService]_vars

(***************************************************************************)
(* Calls of checkCollision on its own.  The centres are drawn from a       *)
(* lattice on which some pairs lie exactly 20 apart (12-16-20), the radii  *)
(* from values whose sums fall below, on and above that distance.  After a *)
(* call has returned, the same spheres are passed again in the other order.*)
(***************************************************************************)
CollisionCoords == {-12, 0, 16}
CollisionRadii == {5, 10, 15}

CollisionPoints == {Vec(x, y, z) : x \in CollisionCoords, y \in CollisionCoords,
                                   z \in CollisionCoords}

InitCollision ==
    /\ InitRefs
    /\ call \in { [fn |-> "checkCollision", a |-> a, rA |-> rA, b |-> b, rB |-> rB,
                    state |-> "called", result |-> FALSE,
                    swapped |-> FALSE, before |-> FALSE] :
                      a \in CollisionPoints, b \in CollisionPoints,
                      rA \in CollisionRadii, rB \in CollisionRadii }

CallCheckCollision ==
    /\ call.fn = "checkCollision"
    /\ call.state = "called"
    /\ call' = [call EXCEPT !.state = "returned",
                             !.result = checkCollision(call.a, call.rA, call.b, call.rB)]
    /\ UNCHANGED engine

\* the caller passes the two spheres in the other order
SwapArguments ==
    /\ call.fn = "checkCollision"
    /\ call.state = "returned"
    /\ ~ call.swapped
    /\ call' = [call EXCEPT !.a = call.b, !.rA = call.rB, !.b = call.a, !.rB = call.rA,
                             !.state = "called", !.swapped = TRUE,
                             !.before = call.result]
    /\ UNCHANGED engine

NextCollision == CallCheckCollision \/ SwapArguments

SpecCollision == InitCollision /\ [][NextCollision]_vars

(***************************************************************************)
(* Calls of the projection module on its own, and the step that hands the  *)
(* pointer to it.  unprojectVector is called with normalised offsets       *)
(* inside and outside the screen (a pointer dragged above the window keeps *)
(* reporting positions), among them the offsets at which the denominator   *)
(* 1 - slopeY * tan is 0 for a screen height, and with target depths at    *)
(* the camera, at the ship, at the aim distance and beyond the view        *)
(* distance; its result is then projected back.  For the component's own   *)
(* screen the pointer is then moved to that offset and the first frame     *)
(* runs on it.                                                             *)
(***************************************************************************)
ProjectionNormXs == {-1000, 0, 500, 1000}
ProjectionNormYs == {-8210, -2000, -1000, 0, 500, 1000}
ProjectionTargetZs == {-300, 0, 1000, 4000, 50000}
ProjectionScreens == { << 800, 600 >>, << 400, 300 >> }

\* the pixel at the normalised offset norm of a screen dimension
PixelAt(norm, size) == RoundDiv(norm * (size \div 2), 1000) + size \div 2

InitProjection ==
    /\ InitRefs
    /\ call \in { [fn |-> "unprojectVector", normX |-> nx, normY |-> ny, targetZ |-> z,
                    w |-> wh[1], h |-> wh[2], state |-> "called",
                    result |-> Vec(0, 0, 0), screen |-> NoScreen] :
                      nx \in ProjectionNormXs, ny \in ProjectionNormYs,
                      z \in ProjectionTargetZs, wh \in ProjectionScreens }

CallUnproject ==
    /\ call.fn = "unprojectVector"
    /\ call.state = "called"
    /\ call' = [call EXCEPT
                   !.state = "unprojected",
                   !.result = unprojectVector(call.normX, call.normY, call.targetZ,
                                              call.w, call.h)]
    /\ UNCHANGED engine

CallProject ==
    /\ call.fn = "unprojectVector"
    /\ call.state = "unprojected"
    /\ call' = [call EXCEPT !.state = "projected",
                             !.screen = projectVector(call.result, call.w, call.h)]
    /\ UNCHANGED engine

\* lines 63-69: the pointer event at the call's offset, on the component's
\* screen
PointerAtOffset ==
    /\ call.fn = "unprojectVector"
    /\ call.state = "projected"
    /\ call.w = width /\ call.h = height
    /\ mounted
    /\ inputRef' = handleMove(PixelAt(call.normX, width), PixelAt(call.normY, height))
    /\ call' = [call EXCEPT !.state = "pointed"]
    /\ UNCHANGED << lastTimeRef, playerRef, entitiesRef, particlesRef, scoreRef,
                    lastReportedScoreRef, lastReportedHealthRef, gameTimeRef,
                    lastFireTimeRef, reticleRef, requestRef, paused, mounted,
                    pending, nextHandle, frames, toggles, updates, renders,
                    gameOvers, kills, last >>

\* the first frame callback, with the pointer there
FirstStepOnOffset ==
    /\ call.fn = "unprojectVector"
    /\ call.state = "pointed"
    /\ FirstFrame

NextProjection == CallUnproject \/ CallProject \/ PointerAtOffset \/ FirstStepOnOffset

SpecProjection == InitProjection /\ [][NextProjection]_vars

(***************************************************************************)
(* Properties.                                                             *)
(***************************************************************************)
Emitted(kind) == {last.emitted[k].value : k \in {k \in 1..Len(last.emitted) :
                                                    last.emitted[k].kind = kind}}

\* C1: over any sequence of frame callbacks, pause/resume toggles and
\* collisions in one session, onGameOver is emitted exactly once: not before
\* the player's health is <= 0, once when it first is, never a second time.
GameOverExactlyOnce ==
    gameOvers = (IF playerRef.health > 0 THEN 0 ELSE 1)

\* the death frame has happened and onGameOver has been called
GameOverEmitted == playerRef.health <= 0 /\ gameOvers >= 1

\* C2: the frame in which the player's health first reaches <= 0 emits
\* onGameOver, and the value it carries is the score at the end of that
\* frame, the score gained in that frame included.
GameOverCarriesFinalScore ==
    [][ (playerRef.health > 0 /\ playerRef'.health <= 0)
           => /\ frames' = frames + 1
              /\ Count(last'.emitted, "gameOver") = 1
              /\ \A k \in 1..Len(last'.emitted) :
                    last'.emitted[k].kind = "gameOver"
                       => last'.emitted[k].value = scoreRef' ]_vars

\* the latest frame is the death frame, and the score rose in it
DeathFrameWithScore ==
    /\ playerRef.health <= 0
    /\ gameOvers = 1
    /\ Emitted("gameOver") = {scoreRef}
    /\ Emitted("score") = {scoreRef}

\* C3: once the player's health is <= 0 no later frame runs update, while
\* every frame callback still runs render.
NoUpdateAfterDeath ==
    [][ /\ playerRef.health <= 0 => updates' = updates
        /\ frames' = frames + 1 => renders' = renders + 1 ]_vars

\* C4: every value passed to onHealthUpdate is an integer in 0..100.
HealthReportInRange ==
    \A v \in Emitted("health") : v \in 0..PLAYER_HEALTH

\* C5: the score is the sum of scoreValue over the distinct enemies that
\* player projectiles destroyed (every enemy is worth ENEMY_SCORE, and kills
\* counts each destroyed enemy once), also when several player projectiles
\* overlap the same enemy in one step.
ScoreCountsEachEnemyOnce == scoreRef = ENEMY_SCORE * kills

\* the store with the entities at indices i and j exchanged, and the index an
\* entity of the original store has in it
SwapEnts(ents, i, j) ==
    LET lo == IF i <= j THEN i ELSE j
        hi == IF i <= j THEN j ELSE i
    IN  IF lo = hi THEN ents
        ELSE SubSeq(ents, 1, lo - 1) \o << ents[hi] >> \o SubSeq(ents, lo + 1, hi - 1)
               \o << ents[lo] >> \o SubSeq(ents, hi + 1, Len(ents))
SwapIdx(k, i, j) == IF k = i THEN j ELSE IF k = j THEN i ELSE k

\* the frame that has just run, run again from the same state with the
\* stored entities i and j exchanged (each entity keeps its random draw)
SwappedFrame(i, j) ==
    Bind([Current EXCEPT !.ents = SwapEnts(@, i, j)], LAMBDA c :
         animate(c, lastTimeRef', last'.cpaused,
                 [last'.rnd EXCEPT !.shooters = {SwapIdx(k, i, j) : k \in @}]))

\* C6: the result of one simulation step (score, player health, and every
\* entity's health and active flag) does not depend on the order of the
\* entity store: the step from the same state with two stored entities
\* exchanged ends with the same values.
StepIsOrderIndependent ==
    [][ (frames' = frames + 1 /\ last'.updated)
          => \A i, j \in 1..Len(entitiesRef) :
               \E n \in {SwappedFrame(i, j)} :
                  /\ n.score = scoreRef'
                  /\ n.player.health = playerRef'.health
                  /\ Len(n.pass) = Len(last'.pass)
                  /\ \A k \in 1..Len(last'.pass) :
                        /\ n.pass[SwapIdx(k, i, j)].health = last'.pass[k].health
                        /\ n.pass[SwapIdx(k, i, j)].active = last'.pass[k].active ]_vars

\* The entity pass of the latest step, from the store it was handed with the
\* entities i and j exchanged (i = j: the store as it was): its input, the
\* state in which it tests the collisions of the entity at index b (the
\* entities before b processed, b moved and culled), and its result.
PassInput(i, j) == [last.pre EXCEPT !.ents = SwapEnts(@, i, j)]
PassShooters(i, j) == {SwapIdx(k, i, j) : k \in last.rnd.shooters}
PassAt(i, j, b) ==
    Bind(PassInput(i, j), LAMBDA input :
    Bind(ForEachEntity(input, 1, b - 1, last.dt, ScrollSpeed(last.dt), PassShooters(i, j)),
         LAMBDA st :
           IF st.ents[b].active
           THEN Bind(MoveEntity(st, b, last.dt, ScrollSpeed(last.dt),
                                b \in PassShooters(i, j)),
                     LAMBDA moved : CullEntity(moved, b))
           ELSE st))
PassResult(i, j) ==
    Bind(PassInput(i, j), LAMBDA input :
         ForEachEntity(input, 1, Len(last.pre.ents), last.dt, ScrollSpeed(last.dt),
                       PassShooters(i, j)))

\* in state m the active enemy b overlaps the active player projectile a
\* and the player
OverlapsBoth(m, b, a) ==
    /\ IsEnemy(m.ents[b]) /\ m.ents[b].active
    /\ m.ents[a].type = "PROJECTILE_Player" /\ m.ents[a].active
    /\ checkCollision(m.ents[b].position, m.ents[b].radius,
                      m.ents[a].position, m.ents[a].radius)
    /\ checkCollision(m.player.position, m.player.radius,
                      m.ents[b].position, m.ents[b].radius)

\* The stored enemy b of the latest step overlaps the player once moved.
\* An enemy's move reads nothing but its own position and the player does
\* not move during the pass, so this is the same wherever b is stored: a
\* step in which no enemy reaches the player has no case of C7.
ReachesPlayer(b) ==
    /\ IsEnemy(last.pre.ents[b])
    /\ checkCollision(last.pre.player.position, last.pre.player.radius,
                      MoveEntity(last.pre, b, last.dt, ScrollSpeed(last.dt), FALSE)
                         .ents[b].position,
                      last.pre.ents[b].radius)

\* C7: in a step where an active enemy B overlaps an active player
\* projectile A and also the player (at the positions the step tests), both
\* effects are applied in that step: B loses SHOT_DAMAGE health and A is
\* consumed, the player loses RAM_DAMAGE health and B is deactivated,
\* whether A is stored before or after B.
BothCollisionsApplied ==
    (last.updated /\ \E b \in 1..Len(last.pre.ents) : ReachesPlayer(b)) =>
      /\ \E f \in {PassResult(1, 1)} : f.ents = last.pass /\ f.player = playerRef
      /\ \A i \in 1..Len(last.pre.ents) :
          \A j \in (IF i = 1 THEN 1 ELSE i + 1)..Len(last.pre.ents) :
           \A b \in {SwapIdx(b, i, j) : b \in {b \in 1..Len(last.pre.ents) :
                                                   ReachesPlayer(b)}} :
            \E m \in {PassAt(i, j, b)} :
              \A a \in 1..Len(last.pre.ents) :
                 OverlapsBoth(m, b, a)
                   => \E f \in {PassResult(i, j)} :
                         /\ f.ents[b].health <= m.ents[b].health - SHOT_DAMAGE
                         /\ ~ f.ents[a].active
                         /\ f.player.health <= m.player.health - RAM_DAMAGE
                         /\ ~ f.ents[b].active

\* the latest step had such an enemy with the projectile stored after it,
\* and has one too when the two are exchanged
BothCollisionsInBothOrders ==
    /\ last.updated
    /\ \E b, a \in 1..Len(last.pre.ents) :
          /\ b < a
          /\ OverlapsBoth(PassAt(b, b, b), b, a)
          /\ OverlapsBoth(PassAt(b, a, a), a, b)
          /\ playerRef.health = last.pre.player.health - RAM_DAMAGE

\* C8: onScoreUpdate and onHealthUpdate are each called at most once per
\* frame, only with the current value and only when it differs from the
\* last value reported; after every unpaused frame the last reported score
\* is the score and the last reported health is the rounded-up health.
ReportsOnlyChanges ==
    [][ frames' = frames + 1
          => /\ Count(last'.emitted, "score") <= 1
             /\ Count(last'.emitted, "health") <= 1
             /\ \A k \in 1..Len(last'.emitted) :
                   /\ last'.emitted[k].kind = "score"
                        => /\ last'.emitted[k].value = scoreRef'
                           /\ last'.emitted[k].value # lastReportedScoreRef
                   /\ last'.emitted[k].kind = "health"
                        => /\ last'.emitted[k].value = MathCeil(playerRef'.health)
                           /\ last'.emitted[k].value # lastReportedHealthRef
             /\ ~ last'.cpaused
                  => /\ lastReportedScoreRef' = scoreRef'
                     /\ lastReportedHealthRef' = MathCeil(playerRef'.health) ]_vars

\* the latest frame reported a new score and a new health, and the player
\* is still alive
ReportedScoreAndHealth ==
    /\ frames > 0
    /\ Emitted("score") = {scoreRef}
    /\ Emitted("health") = {playerRef.health}
    /\ playerRef.health > 0
    /\ lastReportedScoreRef = scoreRef

\* C9: the score never decreases, whatever the step: a frame, paused or
\* not, a pause or a resume.
ScoreNeverDecreases == [][ scoreRef' >= scoreRef ]_vars

\* the score has risen in a frame that ran after a pause and a resume
ScoreRoseAfterResume ==
    /\ toggles >= 2
    /\ ~ last.cpaused
    /\ last.updated
    /\ scoreRef > last.pre.score

\* the gameplay state the pause freezes
Gameplay ==
    << playerRef, entitiesRef, particlesRef, scoreRef, gameTimeRef >>

\* C10: a frame callback whose closure is paused leaves the gameplay state
\* (ship position and rotation, entity store, particle store, score, player
\* health, game time) unchanged, emits nothing and still renders; pointer
\* events are ignored while paused; and since no step other than an
\* unpaused frame changes the gameplay state, the first frame after the
\* resume starts from exactly the frozen state.
PauseFreezesGameplay ==
    [][ /\ (frames' = frames + 1 /\ last'.cpaused)
           => /\ Gameplay' = Gameplay
              /\ last'.emitted = << >>
              /\ ~ last'.updated /\ updates' = updates
              /\ last'.rendered /\ renders' = renders + 1
        /\ paused => inputRef' = inputRef
        /\ ~ (frames' = frames + 1 /\ ~ last'.cpaused) => Gameplay' = Gameplay ]_vars

\* a paused frame has just run over a store that holds entities and
\* particles, in a session that had simulated before
PausedFrameRan ==
    /\ paused
    /\ last.cpaused /\ last.rendered /\ ~ last.updated
    /\ entitiesRef # << >>
    /\ particlesRef # << >>
    /\ gameTimeRef > 0

\* the wall time the session has spent in frames whose closure was paused:
\* the frame clock has run from StartTime to lastTimeRef, the game clock
\* only through the unpaused frames
PausedTime == lastTimeRef - StartTime - gameTimeRef

\* C11: the elapsed time dt of every frame callback, the first one after a
\* resume included, is the time since the immediately preceding callback
\* (paused frames advance the frame clock too), so the game time advances
\* by that dt in an unpaused frame and not at all in a paused one, never by
\* the length of the pause; the first frame of a session gets dt = 0.
DtIsTimeSincePreviousFrame ==
    [][ frames' = frames + 1
          => /\ last'.dt = (IF lastTimeRef = 0 THEN 0 ELSE lastTimeRef' - lastTimeRef)
             /\ lastTimeRef # 0 => lastTimeRef' > lastTimeRef
             /\ gameTimeRef' = gameTimeRef + (IF last'.cpaused THEN 0 ELSE last'.dt) ]_vars

\* a 16 ms step has just run after a resume, in a session whose paused
\* frames cover more wall time than the one pause of a scripted session:
\* the pause before this resume was explored, and it lasted over a second
ResumedAfterLongPause ==
    /\ toggles = 2
    /\ ~ last.cpaused /\ last.updated
    /\ last.dt = 16
    /\ PausedTime > 2560

\* C12: after the core is unmounted no frame callback runs again: in
\* whatever state the unmount came (playing, paused, after the game is
\* over, right after a pause toggle), the host queue holds no request of
\* the component, so no callback - and with it no update, render or
\* notification - can be run.
NoFrameAfterUnmount ==
    ~ mounted => /\ pending = {}
                 /\ ~ ENABLED (FirstFrame \/ Frame)

\* the core was unmounted after the game was over and the shell had toggled
\* the pause (which requests a frame again), with frames still to explore
UnmountedAfterGameOverAndToggle ==
    /\ ~ mounted
    /\ gameOvers >= 1
    /\ toggles >= 1
    /\ frames < MaxFrames

\* C20: at most one frame callback is pending at any time, and it is the
\* one whose handle requestRef holds: across every interleaving of frame
\* callbacks, pause and resume toggles (each re-creates animate and re-runs
\* its effect) and the end of the game, the host queue never holds two
\* requests of the core, so each host frame runs update at most once.
AtMostOneFramePending ==
    /\ Cardinality(pending) <= 1
    /\ \A r \in pending : r.handle = requestRef

\* a request is outstanding after frames have run and the shell has paused
\* and resumed
OnePendingAfterToggles ==
    /\ Cardinality(pending) = 1
    /\ toggles = MaxToggles
    /\ frames >= 1
    /\ mounted

\* a value of type MissionData: an object with all five members, the three
\* texts strings and the two parameters (finite) numbers
ValidMission(v) ==
    /\ v.kind = "object"
    /\ \A f \in DOMAIN v.fields :
          v.fields[f].type = (IF f \in NumericFields THEN "number" ELSE "string")

\* C13: generateMission never rejects and always yields a valid
\* MissionParameters record, whatever the remote service does: no
\* credentials, a thrown error, an empty response, an unparseable response,
\* a parseable response with missing or non-numeric fields.
MissionAlwaysValid ==
    (call.fn = "generateMission" /\ call.state # "pending")
       => /\ call.state = "fulfilled"
          /\ ValidMission(call.value)

\* the promise settled with the catch block's record after a response that
\* did not parse
FellBackOnUnparseable ==
    /\ call.fn = "generateMission"
    /\ call.state = "fulfilled"
    /\ call.service.key /\ ~ call.service.throws
    /\ call.service.text # << >>
    /\ ~ JSONParse(call.service.text).ok
    /\ call.value = Backup(call.wave)

\* C15: checkCollision is symmetric: for all positions a, b and radii rA,
\* rB, the call with the spheres in the other order returns what the call
\* before it returned.
CollisionIsSymmetric ==
    (call.fn = "checkCollision" /\ call.state = "returned" /\ call.swapped)
       => call.result = call.before

\* both orders have been called on spheres of different radii that collide
\* when both radii count (10 apart or more, so not within either radius
\* alone)
SwappedCallOnUnequalSpheres ==
    /\ call.fn = "checkCollision"
    /\ call.state = "returned" /\ call.swapped
    /\ call.rA # call.rB
    /\ call.a # call.b
    /\ call.result

\* the squared Euclidean distance of two centres
SquaredDistance(a, b) ==
    (a.x - b.x) * (a.x - b.x) + (a.y - b.y) * (a.y - b.y) + (a.z - b.z) * (a.z - b.z)

\* C16: checkCollision returns true exactly when the squared distance of
\* the centres is strictly less than the square of the sum of the radii;
\* spheres whose centres are exactly rA + rB apart do not collide.
CollisionIffCloserThanRadii ==
    (call.fn = "checkCollision" /\ call.state = "returned")
       => /\ call.result <=> (SquaredDistance(call.a, call.b)
                                  < (call.rA + call.rB) * (call.rA + call.rB))
          /\ SquaredDistance(call.a, call.b) = (call.rA + call.rB) * (call.rA + call.rB)
                => ~ call.result

\* the call has returned false for two spheres exactly rA + rB = 20 apart
\* whose centres differ in more than one coordinate
TouchingSpheresDoNotCollide ==
    /\ call.fn = "checkCollision"
    /\ call.state = "returned"
    /\ SquaredDistance(call.a, call.b) = 400
    /\ call.rA + call.rB = 20
    /\ call.a.x # call.b.x /\ call.a.y # call.b.y
    /\ ~ call.result

Finite(v) == v.nan = {} /\ v.inf = {}

\* C14: degenerate inputs of unproject (a denominator 1 - slopeY * tan of
\* zero, a camera depth at or below the near clip) are clamped or rejected:
\* unproject never returns a non-finite coordinate, and a simulation step
\* never stores a non-finite value in the ship position or in a
\* projectile's velocity.
UnprojectStaysFinite ==
    /\ (call.fn = "unprojectVector" /\ call.state # "called") => Finite(call.result)
    /\ Finite(playerRef.position)
    /\ \A i \in 1..Len(entitiesRef) : Finite(entitiesRef[i].velocity)

\* the first step has run with the pointer at a zero denominator and has
\* stored a NaN in the ship position and in the velocity of the shot
StepStoredNaN ==
    /\ call.fn = "unprojectVector"
    /\ call.state = "pointed"
    /\ updates = 1
    /\ playerRef.position.nan # {}
    /\ \E i \in 1..Len(entitiesRef) :
          /\ entitiesRef[i].type = "PROJECTILE_Player"
          /\ entitiesRef[i].velocity.nan # {}

RoundTripTolerance == 2

\* the projected point is a screen point within the tolerance of the pixel
\* the call's offsets name
BackOnOffset ==
    /\ call.screen.visible
    /\ Finite(call.screen)
    /\ call.screen.x - PixelAt(call.normX, call.w) \in -RoundTripTolerance..RoundTripTolerance
    /\ call.screen.y - PixelAt(call.normY, call.h) \in -RoundTripTolerance..RoundTripTolerance

\* the call's inputs are outside the degenerate region of unproject: the
\* denominator is not zero and the camera depth exceeds the near clip
OutsideDegenerateRegion ==
    /\ UnprojectDenom(call.normY, call.h) # 0
    /\ UnprojectPitchZ(call.normY, call.targetZ, call.h) > NEAR_CLIP

\* C17: round trip.  For offsets and a target depth outside the degenerate
\* region and with a camera depth within the view distance,
\* project(unproject(normX, normY, z, W, H), W, H) is a screen point, not
\* the null, and equals (normX * W/2 + W/2, normY * H/2 + H/2) within
\* tolerance.
RoundTripWithinViewDistance ==
    (/\ call.fn = "unprojectVector" /\ call.state = "projected"
     /\ OutsideDegenerateRegion
     /\ UnprojectPitchZ(call.normY, call.targetZ, call.h) <= VIEW_DISTANCE)
       => BackOnOffset

\* C17 as stated: the same for every input outside the degenerate region.
RoundTripOutsideDegenerateRegion ==
    (/\ call.fn = "unprojectVector" /\ call.state = "projected"
     /\ OutsideDegenerateRegion)
       => BackOnOffset

\* an offset away from both axes of the screen has been unprojected to the
\* aim distance and projected back onto its pixel
RoundTripAtAimDistance ==
    /\ call.fn = "unprojectVector" /\ call.state = "projected"
    /\ call.normX # 0 /\ call.normY # 0
    /\ call.targetZ = AIM_DISTANCE
    /\ OutsideDegenerateRegion
    /\ BackOnOffset

\* a position between the two culling planes
InCullRange(pos) ==
    /\ "z" \notin pos.nan
    /\ pos.z >= CULL_NEAR
    /\ pos.z <= CULL_FAR

\* C18: after every simulation step the entity store holds only entities
\* with active = true and world Z in [-40, 500].  Entities are flagged
\* inactive during the pass and removed only by the filter after it: the
\* store at the end of the pass still holds every entity it began with, in
\* place, and the store after the step is its active part.  The entities
\* spawned during the step are created inside the range: the enemy and the
\* player projectile, in the store when the pass begins, and the enemy
\* projectiles appended during the pass.
StoreHoldsActiveInRange ==
    /\ \A i \in 1..Len(entitiesRef) :
          entitiesRef[i].active /\ InCullRange(entitiesRef[i].position)
    /\ last.updated =>
          /\ entitiesRef = FilterActive(last.pass)
          /\ Len(last.pass) >= Len(last.pre.ents)
          /\ \A k \in 1..Len(last.pre.ents) :
                /\ last.pre.ents[k].active
                /\ InCullRange(last.pre.ents[k].position)
                /\ last.pass[k].type = last.pre.ents[k].type
          /\ \A k \in (Len(last.pre.ents) + 1)..Len(last.pass) :
                /\ last.pass[k].type = "PROJECTILE_Enemy"
                /\ last.pass[k].active
                /\ InCullRange(last.pass[k].position)

\* other values the smoothed reticle could hold (thousandths)
ReticleChoices == { [x |-> 1000, y |-> -1000], [x |-> -300, y |-> 200] }

\* the frame that has just run, run again from the same state but with the
\* reticle at ret
FrameWithReticle(ret) ==
    Bind([Current EXCEPT !.reticle = ret], LAMBDA c :
         animate(c, lastTimeRef', last'.cpaused, last'.rnd))

\* C19: the smoothed reticle has no influence on gameplay.  A frame run from
\* a state that differs only in the reticle, with the same input, elapsed
\* time and random choices, ends with the same ship, entity store
\* (positions and velocities included), particles, score, player health,
\* clocks and notifications; only the reticle itself may differ, so runs
\* that differ only in the reticle stay equal in all the rest step after
\* step.
ReticleHasNoInfluence ==
    [][ frames' = frames + 1
          => \A ret \in ReticleChoices :
               \E n \in {FrameWithReticle(ret)} :
                  /\ n.player = playerRef'
                  /\ n.ents = entitiesRef'
                  /\ n.particles = particlesRef'
                  /\ n.score = scoreRef'
                  /\ n.gameTime = gameTimeRef'
                  /\ n.lastFireTime = lastFireTimeRef'
                  /\ n.lastReportedScore = lastReportedScoreRef'
                  /\ n.lastReportedHealth = lastReportedHealthRef'
                  /\ n.emitted = last'.emitted
                  /\ n.again = last'.again ]_vars

\* the latest step fired a shot while the reticle was still lagging behind
\* the pointer
ShotFiredWhileReticleLags ==
    /\ frames > 0
    /\ last.updated
    /\ inputRef.active
    /\ reticleRef.x # inputRef.x /\ reticleRef.y # inputRef.y
    /\ Len(last.pre.ents) > 0
    /\ last.pre.ents[Len(last.pre.ents)].type = "PROJECTILE_Player"
    /\ last.pre.ents[Len(last.pre.ents)].position.z = playerRef.position.z + SHOT_OFFSET

====
